---- MODULE Spec2Model ----
(***************************************************************************)
(* Model of ecpps.h: the ECSManager (entity IDs, reuse pool), the          *)
(* ComponentManager (type-keyed map of component vectors) and the          *)
(* ComponentVector<T> (map entity -> slot plus dense vector).              *)
(***************************************************************************)
EXTENDS Integers, Sequences, FiniteSets

\* ---------------------------------------------------------------- bounds
\* entity IDs range over 0 .. MaxID-1 (nextID is capped at MaxID)
MaxID == 2
\* component values are 1 .. NumValues
NumValues == 2
\* a dense vector never grows beyond MaxLen elements
MaxLen == 2
\* at most MaxSystems registerSystem calls are made
MaxSystems == 3

IDs == 0 .. (MaxID - 1)
Values == 1 .. NumValues
\* the component types the application instantiates the templates with
Types == {"Position", "Velocity"}
\* the system types the application registers: classes derived from System
\* only, and classes derived from RenderSystem
PlainSystemTypes == {"MovementSystem", "CollisionSystem"}
RenderSystemTypes == {"SpriteSystem", "TextSystem"}
SystemTypes == PlainSystemTypes \cup RenderSystemTypes

\* ----------------------------------------------------------------- state
VARIABLES
    entities,          \* keys of map<ID, Entity> entities
    nextID,            \* ID nextID
    reusableIDs,       \* vector<ID> reusableIDs
    componentVectors,  \* map typekey -> ComponentVector (indexes, components)
    typeOrder,         \* iteration order of componentVectors (pointer order of the typekeys)
    last,              \* the call made last and how it ended
    systems,           \* vector<System> systems
    rsystems,          \* vector<RenderSystem> rsystems
    hooks              \* the constructor and hook calls the last system call made

vars == <<entities, nextID, reusableIDs, componentVectors, typeOrder, last,
          systems, rsystems, hooks>>

\* the state of the entities and components
ecsvars == <<entities, nextID, reusableIDs, componentVectors, typeOrder>>

\* the state of the systems
sysvars == <<systems, rsystems, hooks>>

\* last.out is how the call ended: "ok" (normal return), "out_of_range"
\* (std::out_of_range thrown to the caller, the NotFound of the design) or
\* "abort" (the process died inside undefined behaviour)
\* last.ret is <<value>> for a call that returned a value, NoRet otherwise
NoRet == <<>>

Call(op, id, type, out, ret) ==
    [op |-> op, id |-> id, type |-> type, out |-> out, ret |-> ret]

Running == last.out # "abort"

\* ------------------------------------------------------ std containers
\* std::map::insert: keeps the old mapping when the key is present
MapInsert(m, k, v) ==
    IF k \in DOMAIN m THEN m
    ELSE [x \in (DOMAIN m) \cup {k} |-> IF x = k THEN v ELSE m[x]]

\* std::map::erase(key)
MapErase(m, k) == [x \in (DOMAIN m) \ {k} |-> m[x]]

\* std::vector::erase(begin() + index), index a valid 0-based position
VecErase(s, index) ==
    [j \in 1 .. (Len(s) - 1) |-> IF j <= index THEN s[j] ELSE s[j + 1]]

\* std::vector::pop_back on a non-empty vector
PopBack(s) == SubSeq(s, 1, Len(s) - 1)

EmptyVector == [indexes |-> <<>>, components |-> <<>>]

\* ------------------------------------------------------ ComponentVector
\* ComponentVector<T>::addComponent
ComponentVector_addComponent(cv, entityID, component) ==
    LET index == IF cv.components = <<>> THEN 0 ELSE Len(cv.components)
    IN  [indexes    |-> MapInsert(cv.indexes, entityID, index),
         components |-> Append(cv.components, component)]

\* the loop of removeEntity that renumbers the remaining indexes
Renumber(indexes, index) ==
    [key \in DOMAIN indexes |->
        IF indexes[key] > index THEN indexes[key] - 1 ELSE indexes[key]]

\* what components.erase(components.begin() + index) may leave behind when
\* index is not a position of the vector (undefined behaviour): the vector as
\* it was, or the vector without its last element
EraseOutOfRange(components) ==
    {components} \cup (IF components = <<>> THEN {} ELSE {PopBack(components)})

\* ComponentVector<T>::removeEntity: the set of possible results
ComponentVector_removeEntity(cv, entityID) ==
    IF entityID \notin DOMAIN cv.indexes
    THEN {[cv |-> cv, out |-> "out_of_range"]}
    ELSE LET index  == cv.indexes[entityID]
             erased == MapErase(cv.indexes, entityID)
         IN  IF index < Len(cv.components)
             THEN {[cv  |-> [indexes    |-> Renumber(erased, index),
                             components |-> VecErase(cv.components, index)],
                    out |-> "ok"]}
             ELSE {[cv  |-> [indexes |-> erased, components |-> cv.components],
                    out |-> "abort"]}
                  \cup
                  {[cv  |-> [indexes |-> Renumber(erased, index), components |-> c],
                    out |-> "ok"] : c \in EraseOutOfRange(cv.components)}

\* ComponentVector<T>::getComponentAt
ComponentVector_getComponentAt(cv, entityID) ==
    LET indexes == MapInsert(cv.indexes, entityID, 0)
        index   == indexes[entityID]
        after   == [indexes |-> indexes, components |-> cv.components]
    IN  IF index < Len(cv.components)
        THEN [cv |-> after, out |-> "ok", ret |-> <<cv.components[index + 1]>>]
        ELSE [cv |-> after, out |-> "out_of_range", ret |-> NoRet]

\* ----------------------------------------------------- ComponentManager
\* getComponentVector that stores a new vector under typekey on every call
\* (componentVectors[typekey] = make_shared... without the find)
ComponentManager_getComponentVector_fresh(cvs, typekey) ==
    [x \in (DOMAIN cvs) \cup {typekey} |-> IF x = typekey THEN EmptyVector ELSE cvs[x]]

\* ComponentManager::getComponentVector: the map after the lazy creation
ComponentManager_getComponentVector(cvs, typekey) ==
    MapInsert(cvs, typekey, EmptyVector)

\* ComponentManager::addComponent
ComponentManager_addComponent(cvs, typekey, entityID, component) ==
    LET created == ComponentManager_getComponentVector(cvs, typekey)
    IN  [created EXCEPT ![typekey] =
            ComponentVector_addComponent(created[typekey], entityID, component)]

\* the typekeys of the existing vectors in map iteration order
KeysInOrder(cvs, order) == SelectSeq(order, LAMBDA t : t \in DOMAIN cvs)

\* the range-for of ComponentManager::removeEntity over the keys left to visit
RECURSIVE RemoveFrom(_, _, _)
RemoveFrom(keys, cvs, entityID) ==
    IF keys = <<>>
    THEN {[cvs |-> cvs, out |-> "ok"]}
    ELSE LET key == Head(keys)
         IN  UNION { IF r.out = "ok"
                     THEN RemoveFrom(Tail(keys), [cvs EXCEPT ![key] = r.cv], entityID)
                     ELSE {[cvs |-> [cvs EXCEPT ![key] = r.cv], out |-> r.out]}
                   : r \in ComponentVector_removeEntity(cvs[key], entityID) }

\* ComponentManager::removeEntity
ComponentManager_removeEntity(cvs, order, entityID) ==
    RemoveFrom(KeysInOrder(cvs, order), cvs, entityID)

\* ------------------------------------------------------------ ECSManager
\* generateEntityID that reads reusableIDs.back() but leaves it in the pool
generateEntityID_noPop(reusable, next) ==
    IF Len(reusable) # 0
    THEN [toReturn |-> reusable[Len(reusable)],
          reusableIDs |-> reusable, nextID |-> next]
    ELSE [toReturn |-> next, reusableIDs |-> reusable, nextID |-> next + 1]

\* generateEntityID that takes the oldest pooled ID (front) instead of the newest
generateEntityID_front(reusable, next) ==
    IF Len(reusable) # 0
    THEN [toReturn |-> Head(reusable),
          reusableIDs |-> Tail(reusable), nextID |-> next]
    ELSE [toReturn |-> next, reusableIDs |-> reusable, nextID |-> next + 1]

\* ECSManager::generateEntityID
generateEntityID(reusable, next) ==
    IF Len(reusable) # 0
    THEN [toReturn |-> reusable[Len(reusable)],
          reusableIDs |-> PopBack(reusable), nextID |-> next]
    ELSE [toReturn |-> next, reusableIDs |-> reusable, nextID |-> next + 1]

\* all orders in which the map may iterate the typekeys
KeyOrders(S) ==
    {s \in [1 .. Cardinality(S) -> S] : \A t \in S : \E i \in DOMAIN s : s[i] = t}

Init ==
    /\ entities = {}
    /\ nextID = 0
    /\ reusableIDs = <<>>
    /\ componentVectors = <<>>
    /\ typeOrder \in KeyOrders(Types)
    /\ last = Call("construct", 0, "", "ok", NoRet)
    /\ systems = <<>>
    /\ rsystems = <<>>
    /\ hooks = <<>>

\* ECSManager::createEntity
createEntity ==
    /\ Running
    /\ reusableIDs # <<>> \/ nextID < MaxID
    /\ LET g == generateEntityID(reusableIDs, nextID)
       IN  /\ reusableIDs' = g.reusableIDs
           /\ nextID' = g.nextID
           /\ entities' = entities \cup {g.toReturn}
           /\ last' = Call("createEntity", g.toReturn, "", "ok", <<g.toReturn>>)
    /\ UNCHANGED <<componentVectors, typeOrder>>
    /\ UNCHANGED sysvars

\* destroyEntity that looks the entity up without entities.at (no throw on a
\* missing key)
destroyEntity_noAt(entityID) ==
    /\ Running
    /\ \E r \in ComponentManager_removeEntity(componentVectors, typeOrder, entityID) :
          /\ componentVectors' = r.cvs
          /\ last' = Call("destroyEntity", entityID, "", r.out, NoRet)
          /\ IF r.out = "ok"
             THEN /\ entities' = entities \ {entityID}
                  /\ reusableIDs' = Append(reusableIDs, entityID)
             ELSE UNCHANGED <<entities, reusableIDs>>
    /\ UNCHANGED <<nextID, typeOrder>>
    /\ UNCHANGED sysvars

\* destroyEntity that pushes the ID to the pool without entities.erase
destroyEntity_noErase(entityID) ==
    /\ Running
    /\ IF entityID \notin entities
       THEN /\ last' = Call("destroyEntity", entityID, "", "out_of_range", NoRet)
            /\ UNCHANGED <<entities, reusableIDs, componentVectors>>
       ELSE \E r \in ComponentManager_removeEntity(componentVectors, typeOrder, entityID) :
              /\ componentVectors' = r.cvs
              /\ last' = Call("destroyEntity", entityID, "", r.out, NoRet)
              /\ entities' = entities
              /\ IF r.out = "ok"
                 THEN reusableIDs' = Append(reusableIDs, entityID)
                 ELSE UNCHANGED reusableIDs
    /\ UNCHANGED <<nextID, typeOrder>>
    /\ UNCHANGED sysvars

\* ECSManager::destroyEntity
destroyEntity(entityID) ==
    /\ Running
    /\ IF entityID \notin entities
       THEN /\ last' = Call("destroyEntity", entityID, "", "out_of_range", NoRet)
            /\ UNCHANGED <<entities, reusableIDs, componentVectors>>
       ELSE \E r \in ComponentManager_removeEntity(componentVectors, typeOrder, entityID) :
              /\ componentVectors' = r.cvs
              /\ last' = Call("destroyEntity", entityID, "", r.out, NoRet)
              /\ IF r.out = "ok"
                 THEN /\ entities' = entities \ {entityID}
                      /\ reusableIDs' = Append(reusableIDs, entityID)
                 ELSE UNCHANGED <<entities, reusableIDs>>
    /\ UNCHANGED <<nextID, typeOrder>>
    /\ UNCHANGED sysvars

\* ECSManager::addComponent<T>
addComponent(entityID, T, component) ==
    /\ Running
    /\ T \in DOMAIN componentVectors => Len(componentVectors[T].components) < MaxLen
    /\ componentVectors' =
          ComponentManager_addComponent(componentVectors, T, entityID, component)
    /\ last' = Call("addComponent", entityID, T, "ok", NoRet)
    /\ UNCHANGED <<entities, nextID, reusableIDs, typeOrder>>
    /\ UNCHANGED sysvars

\* ECSManager::getComponentVector<T>
getComponentVector(T) ==
    /\ Running
    /\ componentVectors' = ComponentManager_getComponentVector(componentVectors, T)
    /\ last' = Call("getComponentVector", 0, T, "ok", NoRet)
    /\ UNCHANGED <<entities, nextID, reusableIDs, typeOrder>>
    /\ UNCHANGED sysvars

\* getComponentVector<T>()->getComponentAt(entityID) on an existing vector
getComponentAt(T, entityID) ==
    /\ Running
    /\ T \in DOMAIN componentVectors
    /\ LET r == ComponentVector_getComponentAt(componentVectors[T], entityID)
       IN  /\ componentVectors' = [componentVectors EXCEPT ![T] = r.cv]
           /\ last' = Call("getComponentAt", entityID, T, r.out, r.ret)
    /\ UNCHANGED <<entities, nextID, reusableIDs, typeOrder>>
    /\ UNCHANGED sysvars

\* getComponentVector<T>()->removeEntity(entityID) on an existing vector
removeEntity(T, entityID) ==
    /\ Running
    /\ T \in DOMAIN componentVectors
    /\ \E r \in ComponentVector_removeEntity(componentVectors[T], entityID) :
          /\ componentVectors' = [componentVectors EXCEPT ![T] = r.cv]
          /\ last' = Call("removeEntity", entityID, T, r.out, NoRet)
    /\ UNCHANGED <<entities, nextID, reusableIDs, typeOrder>>
    /\ UNCHANGED sysvars

\* --------------------------------------------------------------- systems
\* an element of systems / rsystems: an object copy-constructed from a T
\* (sliced to the element type of the vector); inits counts the init() calls
\* made on this very object
Stored(T) == [type |-> T, inits |-> 0]

\* a constructor or hook call: fn is the function, impl the class whose
\* implementation runs, obj the object it runs on: <<"systems", i>> and
\* <<"rsystems", i>> are the elements of the vectors, <<"system", 0>> and
\* <<"rsystem", 0>> the locals of registerSystem
Hook(fn, impl, obj) == [fn |-> fn, impl |-> impl, obj |-> obj]

\* the range-for of update / render over one vector: fn is called on every
\* element in order; the elements are objects of the vector's element type, so
\* the implementation that runs is the base class's
ForEach(list, name, fn, impl) ==
    [i \in 1 .. Len(list) |-> Hook(fn, impl, <<name, i>>)]

\* ECSManager::registerSystem<T>: the vectors afterwards and the calls made
ECSManager_registerSystem(sys, rsys, T) ==
    LET render == T \in RenderSystemTypes
    IN  [systems  |-> Append(sys, Stored(T)),
         rsystems |-> IF render THEN Append(rsys, Stored(T)) ELSE rsys,
         hooks    |-> (IF render THEN <<Hook("construct", T, <<"rsystem", 0>>)>>
                       ELSE <<>>)
                      \o <<Hook("construct", T, <<"system", 0>>),
                           Hook("init", T, <<"system", 0>>)>>]

\* update that walks the render systems before the plain systems
ECSManager_update_renderFirst(sys, rsys) ==
    ForEach(rsys, "rsystems", "update", "System")
    \o ForEach(sys, "systems", "update", "System")

\* ECSManager::update: the hook calls made, in order
ECSManager_update(sys, rsys) ==
    ForEach(sys, "systems", "update", "System")
    \o ForEach(rsys, "rsystems", "update", "System")

\* ECSManager::render: the hook calls made, in order
ECSManager_render(rsys) ==
    ForEach(rsys, "rsystems", "render", "RenderSystem")

\* ECSManager::registerSystem<T>
registerSystem(T) ==
    /\ Running
    /\ Len(systems) < MaxSystems
    /\ Len(rsystems) < MaxSystems
    /\ LET r == ECSManager_registerSystem(systems, rsystems, T)
       IN  /\ systems' = r.systems
           /\ rsystems' = r.rsystems
           /\ hooks' = r.hooks
    /\ last' = Call("registerSystem", 0, T, "ok", NoRet)
    /\ UNCHANGED ecsvars

\* ECSManager::update
update ==
    /\ Running
    /\ hooks' = ECSManager_update(systems, rsystems)
    /\ last' = Call("update", 0, "", "ok", NoRet)
    /\ UNCHANGED <<systems, rsystems>>
    /\ UNCHANGED ecsvars

\* ECSManager::render
render ==
    /\ Running
    /\ hooks' = ECSManager_render(rsystems)
    /\ last' = Call("render", 0, "", "ok", NoRet)
    /\ UNCHANGED <<systems, rsystems>>
    /\ UNCHANGED ecsvars

\* the calls a caller can make with the component types Ts
Calls(Ts) ==
    \/ createEntity
    \/ \E entityID \in IDs : destroyEntity(entityID)
    \/ \E entityID \in IDs, T \in Ts, component \in Values :
          addComponent(entityID, T, component)
    \/ \E T \in Ts : getComponentVector(T)
    \/ \E T \in Ts, entityID \in IDs : getComponentAt(T, entityID)
    \/ \E T \in Ts, entityID \in IDs : removeEntity(T, entityID)

Next == Calls(Types)

Spec == Init /\ [][Next]_vars

\* the same program used with a single component type
NextPosition == Calls({"Position"})

SpecPosition == Init /\ [][NextPosition]_vars

\* the registration and the driving of the systems
NextSystems ==
    \/ \E T \in SystemTypes : registerSystem(T)
    \/ update
    \/ render

SpecSystems == Init /\ [][NextSystems]_vars

\* ------------------------------------------------------------- properties
\* the entity the call just made returned (createEntity)
Returned == last.ret[1]

\* does the vector of type T hold an index entry for entityID
Holds(cvs, T, entityID) ==
    T \in DOMAIN cvs /\ entityID \in DOMAIN cvs[T].indexes

\* C1: every ID createEntity returns is not live at the moment it is
\* returned, so no two live entities ever share an ID.
C1_ReturnedIdNotLive ==
    [][createEntity => Returned' \notin entities]_vars

\* C1 witness: createEntity has handed out the recycled ID 0 while entity 1
\* is live.
C1_Witness ==
    /\ last.op = "createEntity"
    /\ last.ret = <<0>>
    /\ nextID = 2
    /\ entities = {0, 1}

\* C2: at the moment createEntity returns an ID, no component vector of any
\* type holds an entry for that ID.
C2_ReturnedIdHasNoComponents ==
    [][createEntity =>
         \A T \in Types : ~Holds(componentVectors', T, Returned')]_vars

\* C3: destroyEntity on an ID that is not live throws (NotFound) and leaves
\* the reuse pool, the live set and every vector as they were; in particular
\* the destroyEntity that follows a successful destroyEntity of the same ID.
C3_DestroyNotLiveFails ==
    [][\A entityID \in IDs :
         /\ (destroyEntity(entityID) /\ entityID \notin entities) =>
               /\ last'.out = "out_of_range"
               /\ UNCHANGED <<entities, nextID, reusableIDs, componentVectors>>
         /\ ( /\ last.op = "destroyEntity" /\ last.out = "ok"
              /\ last.id = entityID /\ destroyEntity(entityID) ) =>
               /\ last'.out = "out_of_range"
               /\ UNCHANGED <<entities, nextID, reusableIDs, componentVectors>>
      ]_vars

\* C3 witness: the second destroyEntity of an ID that already sits in the
\* reuse pool has failed, with a component vector in existence.
C3_Witness ==
    /\ last.op = "destroyEntity"
    /\ last.out = "out_of_range"
    /\ last.id \notin entities
    /\ \E i \in DOMAIN reusableIDs : reusableIDs[i] = last.id
    /\ componentVectors # <<>>

\* C4: addComponent<T>(e, v) for a live entity that already holds a T fails
\* (DoubleInsert): nothing is appended to the dense vector and the index map
\* is unchanged.
C4_DoubleInsertRejected ==
    [][\A entityID \in IDs, T \in Types, component \in Values :
         ( /\ addComponent(entityID, T, component)
           /\ entityID \in entities
           /\ Holds(componentVectors, T, entityID) ) =>
            /\ last'.out # "ok"
            /\ componentVectors'[T] = componentVectors[T]
      ]_vars

\* C5: addComponent<T>(id, v) for an id that is not live is rejected:
\* afterwards no vector holds an entry for id and no dense vector has grown.
C5_AddToNotLiveRejected ==
    [][\A entityID \in IDs, T \in Types, component \in Values :
         (addComponent(entityID, T, component) /\ entityID \notin entities) =>
            /\ last'.out # "ok"
            /\ \A U \in DOMAIN componentVectors' :
                  /\ entityID \notin DOMAIN componentVectors'[U].indexes
                  /\ Len(componentVectors'[U].components) =
                        IF U \in DOMAIN componentVectors
                        THEN Len(componentVectors[U].components) ELSE 0
      ]_vars

\* C6: getComponentAt(e) succeeds if and only if e holds a component in the
\* vector; for an e without a component it throws (NotFound) instead of
\* returning some component.
C6_GetSucceedsIffHeld ==
    [][\A T \in Types, entityID \in IDs :
         getComponentAt(T, entityID) =>
            (last'.out = "ok" <=> Holds(componentVectors, T, entityID))
      ]_vars

\* C7: destroyEntity of a live entity succeeds whatever subset of the
\* existing vectors holds a component for it.
C7_DestroyLiveSucceeds ==
    [][\A entityID \in IDs :
         (destroyEntity(entityID) /\ entityID \in entities) =>
            /\ last'.out = "ok"
            /\ entityID \notin entities'
      ]_vars

\* C8: a call that fails (throws) leaves the live set, the reuse pool and
\* every vector's dense array and index map exactly as they were.
C8_FailedCallChangesNothing ==
    [][(Next /\ last'.out = "out_of_range") =>
          UNCHANGED <<entities, nextID, reusableIDs, componentVectors>>]_vars

\* what iterating a vector shows for the entity at `key`: its slot and value
SlotValid(cv, key) == cv.indexes[key] < Len(cv.components)

\* C9: after a successful removeEntity(e) the vector holds exactly the
\* entities it held before minus e, every surviving slot is a position of the
\* shrunk dense vector, each entity keeps its value, and the relative dense
\* order of the survivors is unchanged.
C9_RemoveKeepsTheOthers ==
    [][\A T \in Types, entityID \in IDs :
         (removeEntity(T, entityID) /\ last'.out = "ok") =>
            LET before == componentVectors[T]
                after  == componentVectors'[T]
            IN  /\ DOMAIN after.indexes = (DOMAIN before.indexes) \ {entityID}
                /\ \A key \in DOMAIN after.indexes :
                      /\ SlotValid(after, key)
                      /\ SlotValid(before, key)
                      /\ after.components[after.indexes[key] + 1] =
                            before.components[before.indexes[key] + 1]
                /\ \A k1, k2 \in DOMAIN after.indexes :
                      (before.indexes[k1] < before.indexes[k2]) =>
                         (after.indexes[k1] < after.indexes[k2])
      ]_vars

\* C10: createEntity returns the ID freed most recently while the pool is not
\* empty (destroyEntity pushes at the back, createEntity pops from the back)
\* and otherwise the counter, which starts at 0 and advances by one.
C10_LifoReuse ==
    [][ /\ createEntity =>
             IF reusableIDs # <<>>
             THEN /\ Returned' = reusableIDs[Len(reusableIDs)]
                  /\ reusableIDs' = SubSeq(reusableIDs, 1, Len(reusableIDs) - 1)
                  /\ nextID' = nextID
             ELSE /\ Returned' = nextID
                  /\ nextID' = nextID + 1
                  /\ reusableIDs' = reusableIDs
        /\ \A entityID \in IDs :
             (destroyEntity(entityID) /\ last'.out = "ok") =>
                reusableIDs' = Append(reusableIDs, entityID)
        /\ (createEntity /\ entities = {} /\ reusableIDs = <<>> /\ nextID = 0) =>
                Returned' = 0
      ]_vars

\* C10 witness: with 0 freed before 1, createEntity has returned 1 and left 0
\* in the pool.
C10_Witness ==
    /\ last.op = "createEntity"
    /\ last.ret = <<1>>
    /\ reusableIDs = <<0>>
    /\ entities = {1}
    /\ nextID = 2

\* the calls of kind fn among the calls the last system call made
HooksOf(hs, fn) == SelectSeq(hs, LAMBDA h : h.fn = fn)

\* the classes the elements of a vector were copied from, in order
TypesOf(list) == [i \in 1 .. Len(list) |-> list[i].type]

\* C11: registerSystem<T>() constructs one instance of T and appends it to
\* exactly one list: the render-system list when T is a RenderSystem, the
\* plain-system list otherwise; the other list is left as it was.
C11_RegisteredInOneList ==
    [][\A T \in SystemTypes :
         registerSystem(T) =>
            /\ Len(HooksOf(hooks', "construct")) = 1
            /\ IF T \in RenderSystemTypes
               THEN /\ TypesOf(rsystems') = Append(TypesOf(rsystems), T)
                    /\ systems' = systems
               ELSE /\ TypesOf(systems') = Append(TypesOf(systems), T)
                    /\ rsystems' = rsystems
      ]_vars

\* the element of systems / rsystems a hook call ran on
ElementAt(obj) == IF obj[1] = "systems" THEN systems[obj[2]] ELSE rsystems[obj[2]]

\* the element registerSystem<T> has just stored for T in the list of T's kind
HeldObject(T) ==
    IF T \in RenderSystemTypes
    THEN <<"rsystems", Len(rsystems)>>
    ELSE <<"systems", Len(systems)>>

\* C12: registerSystem<T>() calls init() exactly once, on the instance it
\* stores in the list, and every instance that update() or render() calls a
\* hook on has had its init() run exactly once before.
C12_InitOnceOnHeldInstance ==
    [][ /\ \A T \in SystemTypes :
             registerSystem(T) =>
                /\ Len(HooksOf(hooks', "init")) = 1
                /\ HooksOf(hooks', "init")[1].obj = HeldObject(T)'
                /\ ElementAt(HeldObject(T))'.inits = 1
        /\ (update \/ render) =>
             \A i \in DOMAIN hooks' : ElementAt(hooks'[i].obj).inits = 1
      ]_vars

\* the objects update() and render() drive: every element of both vectors
SystemObjects ==
    {<<"systems", i>> : i \in DOMAIN systems} \cup
    {<<"rsystems", i>> : i \in DOMAIN rsystems}

RenderObjects == {<<"rsystems", i>> : i \in DOMAIN rsystems}

\* hs holds exactly one call of fn on obj, and it runs the implementation of
\* the class obj was registered as
OwnHookOnce(hs, fn, obj) ==
    /\ Cardinality({i \in DOMAIN hs : hs[i].fn = fn /\ hs[i].obj = obj}) = 1
    /\ \A i \in DOMAIN hs :
          (hs[i].fn = fn /\ hs[i].obj = obj) => hs[i].impl = ElementAt(obj).type

\* C13: each update() runs the registered concrete type's own update hook
\* exactly once for every registered system, and each render() runs the
\* concrete render hook exactly once for every registered render system.
C13_OwnHookOncePerCall ==
    [][ /\ update => \A obj \in SystemObjects : OwnHookOnce(hooks', "update", obj)
        /\ render => \A obj \in RenderObjects : OwnHookOnce(hooks', "render", obj)
      ]_vars

\* a is an initial part of b
IsPrefix(a, b) == Len(a) <= Len(b) /\ SubSeq(b, 1, Len(a)) = a

\* the objects the calls hs ran on, in call order
ObjectsOf(hs) == [i \in DOMAIN hs |-> hs[i].obj]

GetNow(cvs, T, entityID) == ComponentVector_getComponentAt(cvs[T], entityID)

\* C15: addComponent(e, v) followed immediately by getComponentAt(e) on the
\* same vector yields v.
C15_InsertThenGet ==
    [][\A entityID \in IDs, T \in Types, component \in Values :
         addComponent(entityID, T, component) =>
            /\ GetNow(componentVectors', T, entityID).out = "ok"
            /\ GetNow(componentVectors', T, entityID).ret = <<component>>
      ]_vars

\* the step is a call that inserted into or queried the vector of type T
UsesType(T) ==
    /\ last'.op \in {"addComponent", "getComponentVector"}
    /\ last'.type = T

\* C16: no component vector exists before its type is first inserted or
\* queried; addComponent<T> and getComponentVector<T> create the vector of T
\* when it is missing and otherwise keep the one there with its contents; no
\* call drops a vector or creates one for a type it was not made for.
C16_StoreCreatedOnFirstUse ==
    /\ DOMAIN componentVectors = {}
    /\ [][ /\ (DOMAIN componentVectors) \subseteq (DOMAIN componentVectors')
           /\ \A T \in Types :
                /\ UsesType(T) => T \in DOMAIN componentVectors'
                /\ (T \in DOMAIN componentVectors' /\ T \notin DOMAIN componentVectors)
                      => UsesType(T)
                /\ (UsesType(T) /\ T \in DOMAIN componentVectors) =>
                      /\ IsPrefix(componentVectors[T].components,
                                  componentVectors'[T].components)
                      /\ \A key \in DOMAIN componentVectors[T].indexes :
                            /\ key \in DOMAIN componentVectors'[T].indexes
                            /\ componentVectors'[T].indexes[key] =
                                  componentVectors[T].indexes[key]
                /\ ( /\ UsesType(T) /\ last'.op = "getComponentVector"
                     /\ T \in DOMAIN componentVectors ) =>
                      componentVectors' = componentVectors
                /\ UsesType(T) =>
                      \A U \in (DOMAIN componentVectors) \ {T} :
                         componentVectors'[U] = componentVectors[U]
         ]_vars

\* C16 witness: getComponentVector<Position> has been called again on a
\* vector that already holds components.
C16_Witness ==
    /\ last.op = "getComponentVector"
    /\ last.type = "Position"
    /\ "Position" \in DOMAIN componentVectors
    /\ Len(componentVectors["Position"].components) = 2

\* C17: in every component vector each index entry points to a position of
\* the dense vector, the dense vector has exactly one element per index
\* entry, and no two entities share a slot.
C17_StoreInvariant ==
    \A T \in DOMAIN componentVectors :
        LET cv == componentVectors[T]
        IN  /\ \A key \in DOMAIN cv.indexes : SlotValid(cv, key)
            /\ Len(cv.components) = Cardinality(DOMAIN cv.indexes)
            /\ \A k1, k2 \in DOMAIN cv.indexes :
                  cv.indexes[k1] = cv.indexes[k2] => k1 = k2

\* the IDs in the reuse pool
Pooled == {reusableIDs[i] : i \in DOMAIN reusableIDs}

\* C19: the live IDs and the reuse pool partition the issued IDs: the pool
\* has no duplicates, no pooled ID is live, and live and pooled IDs together
\* are exactly 0 .. nextID-1.
C19_LiveAndPoolPartition ==
    /\ \A i, j \in DOMAIN reusableIDs : reusableIDs[i] = reusableIDs[j] => i = j
    /\ Pooled \cap entities = {}
    /\ Pooled \cup entities = 0 .. (nextID - 1)

\* C19 witness: a destroyEntity has failed while one issued ID is live and
\* the other sits in the pool.
C19_Witness ==
    /\ last.op = "destroyEntity"
    /\ last.out = "out_of_range"
    /\ nextID = 2
    /\ Len(reusableIDs) = 1
    /\ Cardinality(entities) = 1

\* C20: destroyEntity(id) affects only id: for every other live entity e and
\* every component type T, whether e holds a T and, when it does, what
\* getComponentAt(e) returns are the same after the call as before it.
C20_DestroyAffectsOnlyId ==
    [][\A entityID \in IDs :
         destroyEntity(entityID) =>
            \A e \in entities \ {entityID}, T \in DOMAIN componentVectors :
               /\ Holds(componentVectors', T, e) <=> Holds(componentVectors, T, e)
               /\ Holds(componentVectors, T, e) =>
                     /\ GetNow(componentVectors', T, e).out =
                           GetNow(componentVectors, T, e).out
                     /\ GetNow(componentVectors', T, e).ret =
                           GetNow(componentVectors, T, e).ret
      ]_vars

====
